---- MODULE Spec2Model ----
(***************************************************************************)
(* ParaText ColBasedChunk (src/src/colbased_chunk.hpp): the per-column     *)
(* accumulator of the column-based CSV parser.  A chunk holds a numeric    *)
(* store (number_data_), a store of categorical codes (cat_data_) and a    *)
(* string dictionary (cat_ids_, cat_keys_).                                *)
(*                                                                         *)
(* Numbers.  TLC's integers are 32 bits wide, the chunk's are 64 bits and  *)
(* IEEE binary32.  A number is therefore the record [m, e] standing for    *)
(* m * 2^e, kept normalised (m odd, or m = 0 and e = 0), so that equal     *)
(* numbers are equal records.  A long has e >= 0; a float has |m| < 2^24.  *)
(* Decimal texts are computed on digit sequences, never on TLC integers.   *)
(***************************************************************************)
EXTENDS Integers, Sequences, FiniteSets, TLC

(***************************************************************************)
(* Numbers                                                                 *)
(***************************************************************************)
Abs(n) == IF n < 0 THEN 0 - n ELSE n

RECURSIVE Norm(_, _)
\* The normal form of m * 2^e.
Norm(m, e) ==
    IF m = 0 THEN [m |-> 0, e |-> 0]
    ELSE IF m % 2 = 0 THEN Norm(m \div 2, e + 1)
    ELSE [m |-> m, e |-> e]

\* The number of a 32-bit literal.
Long(n) == Norm(n, 0)

\* n / 2^k as a number (a binary fraction).
Frac(n, k) == Norm(n, 0 - k)

IsIntegral(v) == v.e >= 0

RECURSIVE BitLen(_)
\* The number of bits of n >= 0.
BitLen(n) == IF n = 0 THEN 0 ELSE 1 + BitLen(n \div 2)

\* v lies in the range of a signed two's-complement integer of `bits` bits
\* (std::numeric_limits<intN_t>::min() <= v <= max()).
FitsSigned(v, bits) ==
    /\ IsIntegral(v)
    /\ IF v.m >= 0
       THEN BitLen(v.m) + v.e <= bits - 1
       ELSE \/ BitLen(Abs(v.m)) + v.e <= bits - 1
            \/ /\ v.m = -1
               /\ v.e = bits - 1

FloatMantissaBits == 24

\* (float)v: the nearest binary32 number, ties to even (the exponent range
\* of binary32 covers every long, so only the mantissa rounds).
ToFloat(v) ==
    LET a == Abs(v.m)
        s == BitLen(a) - FloatMantissaBits
    IN  IF s <= 0 THEN v
        ELSE LET q    == a \div (2 ^ s)
                 r    == a % (2 ^ s)
                 half == 2 ^ (s - 1)
                 up   == r > half \/ (r = half /\ q % 2 = 1)
                 q2   == IF up THEN q + 1 ELSE q
             IN  Norm(IF v.m < 0 THEN 0 - q2 ELSE q2, v.e + s)

IsFloat(v) == ToFloat(v) = v

(***************************************************************************)
(* Decimal digit sequences (most significant digit first)                  *)
(***************************************************************************)
RECURSIVE Digits(_)
Digits(n) == IF n < 10 THEN <<n>> ELSE Append(Digits(n \div 10), n % 10)

RECURSIVE MulDigits(_, _, _)
\* The digits of ds * c + carry, as long as ds or longer.
MulDigits(ds, c, carry) ==
    IF ds = <<>>
    THEN IF carry = 0 THEN <<>> ELSE Digits(carry)
    ELSE LET n == Len(ds)
             t == ds[n] * c + carry
         IN  Append(MulDigits(SubSeq(ds, 1, n - 1), c, t \div 10), t % 10)

RECURSIVE MulPow(_, _, _)
\* The digits of ds * c^k for c <= 5, eight factors at a time (9 * 5^8 and
\* its carry stay far below 2^31).
MulPow(ds, c, k) ==
    IF k = 0 THEN ds
    ELSE LET j == IF k > 8 THEN 8 ELSE k
         IN  MulPow(MulDigits(ds, c ^ j, 0), c, k - j)

RECURSIVE Zeros(_)
Zeros(k) == IF k <= 0 THEN <<>> ELSE Append(Zeros(k - 1), 0)

RECURSIVE StripZeros(_)
\* Without leading zeros, one digit at least.
StripZeros(ds) ==
    IF Len(ds) > 1 /\ ds[1] = 0 THEN StripZeros(Tail(ds)) ELSE ds

DigitChars == <<"0", "1", "2", "3", "4", "5", "6", "7", "8", "9">>

RECURSIVE DigitsToStr(_)
DigitsToStr(ds) ==
    IF ds = <<>> THEN "" ELSE DigitChars[ds[1] + 1] \o DigitsToStr(Tail(ds))

\* printf's precision of %f when none is given.
FPrecision == 6

\* std::to_string(long): "%ld".
to_string_long(v) ==
    (IF v.m < 0 THEN "-" ELSE "")
        \o DigitsToStr(MulPow(Digits(Abs(v.m)), 2, v.e))

\* std::to_string(float): "%f" of the value promoted to double, that is the
\* exact decimal expansion rounded to FPrecision digits after the point,
\* ties to even.  m / 2^k = m * 5^k / 10^k has exactly k fractional digits.
to_string_float(v) ==
    LET sign == IF v.m < 0 THEN "-" ELSE ""
        a    == Abs(v.m)
    IN  IF v.e >= 0
        THEN sign \o DigitsToStr(MulPow(Digits(a), 2, v.e)) \o "."
                  \o DigitsToStr(Zeros(FPrecision))
        ELSE LET k     == 0 - v.e
                 raw   == MulPow(Digits(a), 5, k)
                 all   == Zeros(k + 1 - Len(raw)) \o raw
                 n     == Len(all)
                 ip    == SubSeq(all, 1, n - k)
                 fr    == SubSeq(all, n - k + 1, n)
             IN  IF k <= FPrecision
                 THEN sign \o DigitsToStr(StripZeros(ip)) \o "."
                           \o DigitsToStr(fr \o Zeros(FPrecision - k))
                 ELSE LET kept == ip \o SubSeq(fr, 1, FPrecision)
                          rest == SubSeq(fr, FPrecision + 1, k)
                          tail == SubSeq(rest, 2, Len(rest))
                          up   == \/ rest[1] > 5
                                  \/ /\ rest[1] = 5
                                     /\ \/ tail # Zeros(Len(tail))
                                        \/ kept[Len(kept)] % 2 = 1
                          \* a leading 0 takes the carry of 9...9 + 1
                          r    == IF up THEN MulDigits(<<0>> \o kept, 1, 1)
                                  ELSE <<0>> \o kept
                          rn   == Len(r)
                      IN  sign
                            \o DigitsToStr(StripZeros(SubSeq(r, 1, rn - FPrecision)))
                            \o "."
                            \o DigitsToStr(SubSeq(r, rn - FPrecision + 1, rn))

(***************************************************************************)
(* widening_vector_dynamic (widening_vector.hpp, not among the sources):   *)
(* modelled from the specification's AdaptiveTypedVector.  A vector is the *)
(* record [idx, data]: the active candidate's place in the ladder and the  *)
(* elements, each held in the active type.                                 *)
(***************************************************************************)
\* number_data_'s candidate ladder, narrowest first (the first template
\* argument, uint8_t, is the unit of storage).
Candidates == <<"int8_t", "int16_t", "int32_t", "int64_t", "float">>

CandidateBits == <<8, 16, 32, 64>>

FloatIdx == Len(Candidates)

StringType == "string"

\* Candidate i represents v exactly.
Holds(i, v) == IF i = FloatIdx THEN IsFloat(v) ELSE FitsSigned(v, CandidateBits[i])

\* The value as the candidate's type stores it (a static_cast).
Encode(i, v) == IF i = FloatIdx THEN ToFloat(v) ELSE v

wv_empty == [idx |-> 1, data |-> <<>>]

wv_size(wv) == Len(wv.data)

\* append that widens straight to the widest integer candidate.
wv_push_back_skip(wv, v) ==
    LET j == IF Holds(wv.idx, v) THEN wv.idx
             ELSE IF Holds(FloatIdx - 1, v) THEN FloatIdx - 1
             ELSE FloatIdx
    IN  [idx  |-> j,
         data |-> Append([k \in 1 .. Len(wv.data) |-> Encode(j, wv.data[k])],
                         Encode(j, v))]

\* append: the narrowest candidate from the active one upward that holds
\* the value; the elements are re-encoded into it, then the value appended.
wv_push_back(wv, v) ==
    LET cands == {i \in wv.idx .. FloatIdx : Holds(i, v)}
        j     == IF cands = {} THEN FloatIdx
                 ELSE CHOOSE i \in cands : \A k \in cands : i <= k
    IN  [idx  |-> j,
         data |-> Append([k \in 1 .. Len(wv.data) |-> Encode(j, wv.data[k])],
                         Encode(j, v))]

\* get<float>(i), 0-based: the element converted to float.
wv_get_float(wv, i) == ToFloat(wv.data[i + 1])

\* clear / shrink_to_fit: no elements, the narrowest candidate active.
wv_clear(wv) == wv_empty

wv_get_type_index(wv) == Candidates[wv.idx]

Rank(t) == CHOOSE i \in 1 .. FloatIdx : Candidates[i] = t

\* common_type_identifier: string wins, else the wider of the two.
wv_get_common_type_index(wv, other_type) ==
    IF other_type = StringType THEN StringType
    ELSE IF Rank(other_type) > wv.idx THEN other_type
    ELSE Candidates[wv.idx]

(***************************************************************************)
(* ColBasedChunk.  A chunk is the record of its fields; each method is an  *)
(* operator from the chunk (and the arguments) to the chunk it leaves.     *)
(* cat_data_ is the sequence of its codes: the chunk never shows the       *)
(* width cat_data_ stores them in.                                         *)
(***************************************************************************)
EmptyMap == [k \in {} |-> 0]

\* ColBasedChunk(): every field default-constructed.
NewChunk ==
    [number_data_ |-> wv_empty,
     cat_data_    |-> <<>>,
     cat_ids_     |-> EmptyMap,
     cat_keys_    |-> <<>>]

NUMERIC == "NUMERIC"

STRINGISH == "STRINGISH"

\* get_string_id with the new code taken one too high.
get_string_id_offbyone(c, key) ==
    IF key \in DOMAIN c.cat_ids_
    THEN [chunk |-> c, ret |-> c.cat_ids_[key]]
    ELSE LET id == Cardinality(DOMAIN c.cat_ids_) + 1
         IN  [chunk |-> [c EXCEPT
                    !.cat_ids_  = [k \in DOMAIN c.cat_ids_ \cup {key} |->
                                       IF k = key THEN id ELSE c.cat_ids_[k]],
                    !.cat_keys_ = Append(c.cat_keys_, key)],
              ret   |-> id]

\* get_string_id with the new key put in front of cat_keys_.
get_string_id_front(c, key) ==
    IF key \in DOMAIN c.cat_ids_
    THEN [chunk |-> c, ret |-> c.cat_ids_[key]]
    ELSE LET id == Cardinality(DOMAIN c.cat_ids_)
         IN  [chunk |-> [c EXCEPT
                    !.cat_ids_  = [k \in DOMAIN c.cat_ids_ \cup {key} |->
                                       IF k = key THEN id ELSE c.cat_ids_[k]],
                    !.cat_keys_ = <<key>> \o c.cat_keys_],
              ret   |-> id]

\* Returns the chunk after the call and the code returned.
get_string_id(c, key) ==
    IF key \in DOMAIN c.cat_ids_
    THEN [chunk |-> c, ret |-> c.cat_ids_[key]]
    ELSE LET id == Cardinality(DOMAIN c.cat_ids_)
         IN  [chunk |-> [c EXCEPT
                    !.cat_ids_  = [k \in DOMAIN c.cat_ids_ \cup {key} |->
                                       IF k = key THEN id ELSE c.cat_ids_[k]],
                    !.cat_keys_ = Append(c.cat_keys_, key)],
              ret   |-> id]

\* cat_data_.push_back((long)get_string_id(key))
PushCat(c, key) ==
    LET r == get_string_id(c, key)
    IN  [r.chunk EXCEPT !.cat_data_ = Append(r.chunk.cat_data_, r.ret)]

add_cat_data(c, data) == PushCat(c, data)

RECURSIVE ConvertFrom(_, _)
\* The loop of convert_to_string from index i (0-based) on.
ConvertFrom(c, i) ==
    IF i < wv_size(c.number_data_)
    THEN ConvertFrom(PushCat(c, to_string_float(wv_get_float(c.number_data_, i))),
                     i + 1)
    ELSE c

\* convert_to_string that clears the numbers without converting them.
convert_to_string_drop(c) ==
    IF wv_size(c.number_data_) > 0
    THEN [c EXCEPT !.number_data_ = wv_clear(c.number_data_)]
    ELSE c

convert_to_string(c) ==
    IF wv_size(c.number_data_) > 0
    THEN [ConvertFrom(c, 0) EXCEPT !.number_data_ = wv_clear(c.number_data_)]
    ELSE c

\* process_categorical without the special case of the empty text.
process_categorical_noempty(c, key) ==
    IF wv_size(c.number_data_) > 0
    THEN PushCat(convert_to_string(c), key)
    ELSE PushCat(c, key)

\* process_categorical that appends the text before it converts the numbers.
process_categorical_keyfirst(c, key) ==
    IF wv_size(c.number_data_) > 0
    THEN IF key = ""
         THEN [c EXCEPT !.number_data_ = wv_push_back(c.number_data_, Long(0))]
         ELSE convert_to_string(PushCat(c, key))
    ELSE PushCat(c, key)

\* process_categorical that takes the empty text for a zero in any mode.
process_categorical_emptyzero(c, key) ==
    IF key = ""
    THEN [c EXCEPT !.number_data_ = wv_push_back(c.number_data_, Long(0))]
    ELSE IF wv_size(c.number_data_) > 0
         THEN PushCat(convert_to_string(c), key)
         ELSE PushCat(c, key)

process_categorical(c, key) ==
    IF wv_size(c.number_data_) > 0
    THEN IF key = ""
         THEN [c EXCEPT !.number_data_ = wv_push_back(c.number_data_, Long(0))]
         ELSE PushCat(convert_to_string(c), key)
    ELSE PushCat(c, key)

process_float(c, val) ==
    IF Len(c.cat_data_) > 0
    THEN process_categorical(c, to_string_float(val))
    ELSE [c EXCEPT !.number_data_ = wv_push_back(c.number_data_, val)]

process_integer(c, val) ==
    IF Len(c.cat_data_) > 0
    THEN process_categorical(c, to_string_long(val))
    ELSE [c EXCEPT !.number_data_ = wv_push_back(c.number_data_, val)]

get_semantics(c) == IF Len(c.cat_data_) > 0 THEN STRINGISH ELSE NUMERIC

\* get_type_index without the test of the chunk's mode.
get_type_index_nomode(c) == wv_get_type_index(c.number_data_)

get_type_index(c) ==
    IF Len(c.cat_data_) > 0 THEN StringType
    ELSE wv_get_type_index(c.number_data_)

\* get_common_type_index without the test of this chunk's mode.
get_common_type_index_nomode(c, other_type) ==
    IF other_type = StringType THEN StringType
    ELSE wv_get_common_type_index(c.number_data_, other_type)

get_common_type_index(c, other_type) ==
    IF Len(c.cat_data_) > 0 \/ other_type = StringType THEN StringType
    ELSE wv_get_common_type_index(c.number_data_, other_type)

get_cat_keys(c) == c.cat_keys_

\* size that counts the categorical store only.
size_cat_only(c) == Len(c.cat_data_)

size(c) ==
    IF Len(c.cat_data_) > 0 THEN Len(c.cat_data_) ELSE wv_size(c.number_data_)

\* clear that leaves cat_ids_ as it is.
clear_keeps_ids(c) ==
    [c EXCEPT !.number_data_ = wv_clear(@),
              !.cat_data_    = <<>>,
              !.cat_keys_    = <<>>]

\* clear that leaves cat_data_ as it is.
clear_keeps_data(c) ==
    [c EXCEPT !.number_data_ = wv_clear(@),
              !.cat_ids_     = EmptyMap,
              !.cat_keys_    = <<>>]

clear(c) ==
    [c EXCEPT !.number_data_ = wv_clear(@),
              !.cat_data_    = <<>>,
              !.cat_ids_     = EmptyMap,
              !.cat_keys_    = <<>>]

\* The outcome of a read: an error, or the value read.
Failed(err) == [error |-> err, value |-> 0]

Returned(v) == [error |-> "", value |-> v]

\* widening_vector get<T>(i), 0-based: OutOfRange when i >= size.
wv_get(wv, i) ==
    IF i < wv_size(wv) THEN Returned(wv.data[i + 1]) ELSE Failed("OutOfRange")

\* insert_numeric<T>(oit): the number of elements copied, or the throw.
insert_numeric(c) ==
    IF Len(c.cat_data_) > 0 THEN Failed("logic_error")
    ELSE Returned(wv_size(c.number_data_))

\* get<T, true>(i): no test of the mode, the numeric store is read.
get_numeric(c, i) == wv_get(c.number_data_, i)

\* get_string(idx) and get<T, false>(i): the code at idx, 0-based.
get_string(c, idx) ==
    IF idx < Len(c.cat_data_) THEN Returned(c.cat_data_[idx + 1])
    ELSE Failed("OutOfRange")

(***************************************************************************)
(* The state: the fields of one chunk, the last call made on it, whether   *)
(* it has run a conversion, the values its column of the input can hold    *)
(* (what the tokenizer may pass), and a second chunk (another worker's),   *)
(* used where two are compared.                                            *)
(***************************************************************************)
VARIABLES number_data_, cat_data_, cat_ids_, cat_keys_, last_call, conversion,
          column, other

vars ==
    <<number_data_, cat_data_, cat_ids_, cat_keys_, last_call, conversion,
      column, other>>

This ==
    [number_data_ |-> number_data_,
     cat_data_    |-> cat_data_,
     cat_ids_     |-> cat_ids_,
     cat_keys_    |-> cat_keys_]

\* Values held by one chunk (both stores), and keys of its dictionary.
MaxRows == 4

\* Values held by each of the two chunks that are compared.
PairRows == 2

\* A column of the input: the integers, the fractions and the texts its
\* fields hold.
Column(longs, floats, texts) == [longs |-> longs, floats |-> floats, texts |-> texts]

\* A sparse numeric column that ends in text.
SparseColumn == Column({Long(0), Long(1), Long(2)}, {}, {"", "x"})

\* A text column.
TextColumn == Column({}, {}, {"a", "b", "c"})

\* A column of large integers: two neighbours of 2^24 and two of 2^34 (the
\* second of each is no binary32 number), and a fraction.
WideColumn ==
    Column({Long(16777216), Long(16777217), Norm(1, 34), Norm(16777217, 10)},
           {Frac(3, 1)}, {"x"})

\* A column whose integers cross each candidate's range: 1, 300, 70000 and
\* 5000000000 = 9765625 * 2^9.
LadderColumn ==
    Column({Long(1), Long(300), Long(70000), Norm(9765625, 9)}, {Frac(3, 1)}, {})

Columns == {SparseColumn, TextColumn, WideColumn, LadderColumn}

Stored(c) == wv_size(c.number_data_) + Len(c.cat_data_)

Bounded(c, rows) == Stored(c) <= rows /\ Len(c.cat_keys_) <= rows

\* The call runs convert_to_string(): called itself, or from
\* process_categorical (lines 97-99), which process_float and
\* process_integer enter in categorical mode.
Invokes(c, op, key) ==
    \/ op = "convert_to_string"
    \/ /\ op = "process_categorical"
       /\ wv_size(c.number_data_) > 0
       /\ key # ""
    \/ /\ op \in {"process_float", "process_integer"}
       /\ Len(c.cat_data_) > 0
       /\ wv_size(c.number_data_) > 0

\* ... and finds numbers to convert.
Converts(c, op, key) == Invokes(c, op, key) /\ wv_size(c.number_data_) > 0

Call(op, key, val, ret) == [op |-> op, key |-> key, val |-> val, ret |-> ret]

\* History of conversions: "never" until convert_to_string() is first run;
\* "void" once it has run, on empty numeric stores only; "done" from a run
\* that converted numbers until the next clear(), and "cleared" from then
\* until the next such run.
Conversion(c, op, key) ==
    IF Converts(c, op, key) THEN "done"
    ELSE IF op = "clear" /\ conversion = "done" THEN "cleared"
    ELSE IF Invokes(c, op, key) /\ conversion = "never" THEN "void"
    ELSE conversion

\* The call `op` leaves this chunk as c.
Becomes(c, op, key, val, ret) ==
    /\ Bounded(c, MaxRows)
    /\ number_data_' = c.number_data_
    /\ cat_data_' = c.cat_data_
    /\ cat_ids_' = c.cat_ids_
    /\ cat_keys_' = c.cat_keys_
    /\ last_call' = Call(op, key, val, ret)
    /\ conversion' = Conversion(This, op, key)
    /\ UNCHANGED <<column, other>>

Init ==
    /\ number_data_ = NewChunk.number_data_
    /\ cat_data_ = NewChunk.cat_data_
    /\ cat_ids_ = NewChunk.cat_ids_
    /\ cat_keys_ = NewChunk.cat_keys_
    /\ last_call = Call("ColBasedChunk", "", Long(0), 0)
    /\ conversion = "never"
    /\ column \in Columns
    /\ other = NewChunk

ProcessFloat ==
    \E val \in column.floats :
        \E c \in {process_float(This, val)} :
            Becomes(c, "process_float", "", val, 0)

ProcessInteger ==
    \E val \in column.longs :
        \E c \in {process_integer(This, val)} :
            Becomes(c, "process_integer", "", val, 0)

ProcessCategorical ==
    \E key \in column.texts :
        \E c \in {process_categorical(This, key)} :
            Becomes(c, "process_categorical", key, Long(0), 0)

AddCatData ==
    \E data \in column.texts :
        \E c \in {add_cat_data(This, data)} :
            Becomes(c, "add_cat_data", data, Long(0), 0)

GetStringId ==
    \E key \in column.texts :
        \E r \in {get_string_id(This, key)} :
            Becomes(r.chunk, "get_string_id", key, Long(0), r.ret)

ConvertToString ==
    \E c \in {convert_to_string(This)} :
        Becomes(c, "convert_to_string", "", Long(0), 0)

Clear ==
    \E c \in {clear(This)} :
        Becomes(c, "clear", "", Long(0), 0)

Next ==
    \/ ProcessFloat
    \/ ProcessInteger
    \/ ProcessCategorical
    \/ AddCatData
    \/ GetStringId
    \/ ConvertToString
    \/ Clear

Spec == Init /\ [][Next]_vars

(***************************************************************************)
(* Two chunks of one column, each grown by its own worker's process_*      *)
(* calls.                                                                  *)
(***************************************************************************)
\* The chunks one process_* call on c can leave.
Grown(c) ==
    {process_float(c, val) : val \in column.floats}
        \cup {process_integer(c, val) : val \in column.longs}
        \cup {process_categorical(c, key) : key \in column.texts}

PairThisFloat ==
    /\ Stored(This) < PairRows
    /\ \E val \in column.floats :
        \E c \in {process_float(This, val)} :
            Becomes(c, "process_float", "", val, 0)

PairThisInteger ==
    /\ Stored(This) < PairRows
    /\ \E val \in column.longs :
        \E c \in {process_integer(This, val)} :
            Becomes(c, "process_integer", "", val, 0)

PairThisCategorical ==
    /\ Stored(This) < PairRows
    /\ \E key \in column.texts :
        \E c \in {process_categorical(This, key)} :
            Becomes(c, "process_categorical", key, Long(0), 0)

PairOther ==
    /\ \E c \in Grown(other) :
        /\ Bounded(c, PairRows)
        /\ other' = c
    /\ UNCHANGED <<number_data_, cat_data_, cat_ids_, cat_keys_, last_call,
                   conversion, column>>

PairNext ==
    \/ PairThisFloat
    \/ PairThisInteger
    \/ PairThisCategorical
    \/ PairOther

SpecPair == Init /\ [][PairNext]_vars

(***************************************************************************)
(* One chunk fed by the tokenizer alone: a field at a time through         *)
(* process_float, process_integer or process_categorical, and clear()      *)
(* between two uses.                                                       *)
(***************************************************************************)
RowsNext ==
    \/ ProcessFloat
    \/ ProcessInteger
    \/ ProcessCategorical
    \/ Clear

SpecRows == Init /\ [][RowsNext]_vars

(***************************************************************************)
(* Properties                                                              *)
(***************************************************************************)
Range(seq) == {seq[i] : i \in 1 .. Len(seq)}

IsPrefix(s, t) == Len(s) <= Len(t) /\ SubSeq(t, 1, Len(s)) = s

IndexOf(seq, x) == CHOOSE i \in 1 .. Len(seq) : seq[i] = x

Max(a, b) == IF a >= b THEN a ELSE b

\* The step is the call `op`.
Calls(op) == last_call'.op = op

\* The step runs convert_to_string() on a non-empty numeric store.
Converting == Converts(This, last_call'.op, last_call'.key)

\* C1: the numeric store and the store of categorical codes are never both
\* non-empty, whatever public mutators ran.
ModeInvariant == ~(wv_size(number_data_) > 0 /\ Len(cat_data_) > 0)

\* C2 as claimed: once convert_to_string() has been invoked, get_semantics()
\* is never NUMERIC again.
OneWayAfterInvocation == conversion # "never" => get_semantics(This) # NUMERIC

\* C2, amended: once convert_to_string() has run on a non-empty numeric
\* store, get_semantics() is STRINGISH in every later state up to the next
\* clear().
OneWayUntilClear == conversion = "done" => get_semantics(This) = STRINGISH

\* A number passed after the conversion was stored as a category.
OneWayWitness ==
    /\ conversion = "done"
    /\ last_call.op = "process_integer"
    /\ wv_size(number_data_) = 0
    /\ Len(cat_data_) = 3

\* C3: a conversion gives two stored numbers that differ two different
\* codes (so that each entry's text identifies the number it came from).
ConversionKeepsValuesApart ==
    [][Converting =>
        LET n == wv_size(number_data_)
            l == Len(cat_data_)
        IN  \A i, j \in 1 .. n :
                number_data_.data[i] # number_data_.data[j]
                    => cat_data_'[l + i] # cat_data_'[l + j]]_vars

ConvertedIntegerTexts ==
    [][/\ (/\ Calls("process_categorical")
           /\ last_call'.key = "x"
           /\ number_data_.data = <<Long(1), Long(2), Long(0)>>
           /\ cat_keys_ = <<>>
           /\ cat_data_ = <<>>)
           => /\ get_cat_keys(This') = <<"1", "2", "0", "x">>
              /\ size(This') = 4
              /\ get_semantics(This') = STRINGISH
       /\ (Converting /\ number_data_.idx # FloatIdx)
           => \A i \in 1 .. wv_size(number_data_) :
                cat_keys_'[cat_data_'[Len(cat_data_) + i] + 1]
                    = to_string_long(number_data_.data[i])]_vars

\* C6: get_string_id(text) returns the code text was given when it was first
\* interned (its place in cat_keys_), and otherwise the next code, the
\* number of distinct texts interned so far, appending text to cat_keys_;
\* a, b, a, c get 0, 1, 0, 2 and leave the decode list <<a, b, c>>.
InternFirstSeen ==
    [][/\ Calls("get_string_id") =>
            LET key == last_call'.key
                ret == last_call'.ret
            IN  IF key \in Range(cat_keys_)
                THEN /\ ret = IndexOf(cat_keys_, key) - 1
                     /\ UNCHANGED <<cat_keys_, cat_ids_>>
                ELSE /\ ret = Len(cat_keys_)
                     /\ ret = Cardinality(Range(cat_keys_))
                     /\ cat_keys_' = Append(cat_keys_, key)
                     /\ cat_ids_'[key] = ret
       /\ LET r1 == get_string_id(NewChunk, "a")
              r2 == get_string_id(r1.chunk, "b")
              r3 == get_string_id(r2.chunk, "a")
              r4 == get_string_id(r3.chunk, "c")
          IN  /\ <<r1.ret, r2.ret, r3.ret, r4.ret>> = <<0, 1, 0, 2>>
              /\ get_cat_keys(r4.chunk) = <<"a", "b", "c">>]_vars

\* a is interned again after b and c: it keeps its code.
InternWitness ==
    /\ last_call.op = "get_string_id"
    /\ last_call.key = "a"
    /\ last_call.ret = 0
    /\ cat_keys_ = <<"a", "b", "c">>

\* The dictionary after the step extends the dictionary before it.
DictionaryExtended ==
    /\ IsPrefix(cat_keys_, cat_keys_')
    /\ \A k \in DOMAIN cat_ids_ :
        /\ k \in DOMAIN cat_ids_'
        /\ cat_ids_'[k] = cat_ids_[k]
    /\ \A k \in DOMAIN cat_ids_' \ DOMAIN cat_ids_ :
        \A j \in DOMAIN cat_ids_ : cat_ids_'[k] # cat_ids_[j]

\* C7 as claimed: every operation extends the dictionary (cat_keys_ before
\* is a prefix of cat_keys_ after, no text changes its code, no code is
\* given to a second text).
DictionaryGrows == [][DictionaryExtended]_vars

\* C7, amended: every operation other than clear() extends the dictionary.
DictionaryGrowsUntilClear == [][~Calls("clear") => DictionaryExtended]_vars

\* A conversion has added the numbers' texts, and the call "x".
DictionaryGrowsWitness ==
    /\ last_call.op = "process_categorical"
    /\ conversion = "done"
    /\ cat_keys_ = <<"1.000000", "2.000000", "0.000000", "x">>
    /\ cat_data_ = <<0, 1, 2, 3>>

\* C8: in categorical mode every numeric read (insert_numeric<T>,
\* get<T, true>(i)) fails instead of returning data.
NumericReadFails ==
    Len(cat_data_) > 0 =>
        /\ insert_numeric(This).error # ""
        /\ \A i \in 0 .. MaxRows : get_numeric(This, i).error # ""

\* C9: clear() leaves both stores and the dictionary empty, size() 0 and the
\* column NUMERIC; a second clear() changes nothing; the text interned next
\* gets code 0.
ClearResets ==
    [][/\ Calls("clear") =>
            /\ wv_size(number_data_') = 0
            /\ cat_data_' = <<>>
            /\ DOMAIN cat_ids_' = {}
            /\ cat_keys_' = <<>>
            /\ size(This') = 0
            /\ get_semantics(This') = NUMERIC
            /\ clear(This') = This'
       /\ (last_call.op = "clear" /\ Calls("get_string_id"))
            => /\ last_call'.ret = 0
               /\ cat_keys_' = <<last_call'.key>>
       /\ (last_call.op = "clear"
                /\ (Calls("add_cat_data") \/ Calls("process_categorical")))
            => /\ cat_data_' = <<0>>
               /\ cat_keys_' = <<last_call'.key>>]_vars

\* clear() has run on a chunk that had converted its numbers.
ClearWitness ==
    /\ last_call.op = "clear"
    /\ conversion = "cleared"
    /\ size(This) = 0

\* C10: for two chunks grown by process_* calls the common type is the same
\* from either side: string when either is categorical, else the wider of
\* the two active candidates.
CommonTypeSymmetric ==
    LET a == get_common_type_index(This, get_type_index(other))
        b == get_common_type_index(other, get_type_index(This))
    IN  /\ a = b
        /\ (Len(cat_data_) > 0 \/ Len(other.cat_data_) > 0) => a = StringType
        /\ (Len(cat_data_) = 0 /\ Len(other.cat_data_) = 0)
            => a = Candidates[Max(number_data_.idx, other.number_data_.idx)]

\* A categorical chunk beside a numeric one that holds 64-bit integers.
CommonTypeWitness ==
    /\ Len(cat_data_) > 0
    /\ Len(other.cat_data_) = 0
    /\ get_type_index(other) = "int64_t"

(***************************************************************************)
(* C11  Narrowness.  While only integers have been appended to the numeric *)
(* store since it was last cleared (by clear() or by a conversion), its    *)
(* active type is the narrowest candidate that holds every one of them     *)
(* (int8_t for 1; int16_t once 300 is there; int32_t once 70000 is;        *)
(* int64_t once 5000000000 is), and no call other than one that clears the *)
(* store makes the active type narrower.                                   *)
(***************************************************************************)
\* The narrowest candidate that holds every element of data.
NarrowestFor(data) ==
    CHOOSE i \in 1 .. FloatIdx :
        /\ \A k \in 1 .. Len(data) : Holds(i, data[k])
        /\ \A j \in 1 .. i - 1 : \E k \in 1 .. Len(data) : ~Holds(j, data[k])

Narrowest ==
    (\A k \in 1 .. wv_size(number_data_) : IsIntegral(number_data_.data[k]))
        => number_data_.idx = NarrowestFor(number_data_.data)

NarrowestAndWidening ==
    [][/\ Narrowest'
       /\ (~Calls("clear") /\ ~Converting)
            => number_data_'.idx >= number_data_.idx]_vars

\* 1, 300, 70000 and 5000000000 appended in this order: int64_t is active.
NarrowestWitness ==
    /\ number_data_.data = <<Long(1), Long(300), Long(70000), Norm(9765625, 9)>>
    /\ wv_get_type_index(number_data_) = "int64_t"
    /\ last_call.op = "process_integer"

(***************************************************************************)
(* C12  Lossless promotion.  A call that appends to the numeric store      *)
(* leaves every element the store held as it was and stores the appended   *)
(* value itself, whatever promotion the append causes (to float included): *)
(* so each value appended since the last clear is read back exactly.       *)
(***************************************************************************)
\* The value a call that grows the numeric store appends: its argument, or
\* the zero of an empty field (line 95).
Appended == IF Calls("process_categorical") THEN Long(0) ELSE last_call'.val

LosslessPromotion ==
    [][wv_size(number_data_') > wv_size(number_data_)
         => /\ \A k \in 1 .. wv_size(number_data_) :
                  number_data_'.data[k] = number_data_.data[k]
            /\ number_data_'.data[wv_size(number_data_')] = Appended
            /\ \A k \in 1 .. wv_size(number_data_') :
                  Holds(number_data_'.idx, number_data_'.data[k])]_vars

(***************************************************************************)
(* C13  Order-preserving conversion step.  process_categorical with a      *)
(* non-empty text t on a chunk whose numeric store holds v1 .. vn (n >= 1) *)
(* and whose categorical store is empty leaves the numeric store empty and *)
(* n + 1 codes in the categorical store: the i-th is the code of the text  *)
(* rendered from vi, in the order the values had, and the last is the code *)
(* of t.                                                                   *)
(***************************************************************************)
\* The text the code stands for.
Decoded(code) == cat_keys_'[code + 1]

ConversionKeepsOrder ==
    [][(/\ Calls("process_categorical")
        /\ last_call'.key # ""
        /\ wv_size(number_data_) >= 1
        /\ Len(cat_data_) = 0)
         => LET n == wv_size(number_data_)
            IN  /\ wv_size(number_data_') = 0
                /\ Len(cat_data_') = n + 1
                /\ \A i \in 1 .. n :
                      /\ cat_data_'[i] < Len(cat_keys_')
                      /\ Decoded(cat_data_'[i])
                           = to_string_float(wv_get_float(number_data_, i - 1))
                      /\ cat_ids_'[Decoded(cat_data_'[i])] = cat_data_'[i]
                /\ cat_data_'[n + 1] < Len(cat_keys_')
                /\ Decoded(cat_data_'[n + 1]) = last_call'.key
                /\ cat_ids_'[last_call'.key] = cat_data_'[n + 1]]_vars

\* 16777216, 16777217 (one text for both) and then "x".
ConversionKeepsOrderWitness ==
    /\ last_call.op = "process_categorical"
    /\ last_call.key = "x"
    /\ cat_keys_ = <<"16777216.000000", "x">>
    /\ cat_data_ = <<0, 0, 1>>
    /\ wv_size(number_data_) = 0

(***************************************************************************)
(* C14  Routing of numeric input by mode.  process_float and               *)
(* process_integer on a chunk whose categorical store is non-empty append  *)
(* exactly one code, that of the value's text, to the categorical store    *)
(* and leave the numeric store as it was, empty; on a chunk whose          *)
(* categorical store is empty they append the value to the numeric store   *)
(* and leave the categorical store and the dictionary as they were.        *)
(***************************************************************************)
\* The text process_float / process_integer make of the call's value.
TextOfCall ==
    IF Calls("process_float") THEN to_string_float(last_call'.val)
    ELSE to_string_long(last_call'.val)

RoutedByMode ==
    [][(Calls("process_float") \/ Calls("process_integer"))
         => IF Len(cat_data_) > 0
            THEN /\ Len(cat_data_') = Len(cat_data_) + 1
                 /\ IsPrefix(cat_data_, cat_data_')
                 /\ cat_keys_'[cat_data_'[Len(cat_data_')] + 1] = TextOfCall
                 /\ number_data_' = number_data_
                 /\ wv_size(number_data_) = 0
            ELSE /\ wv_size(number_data_') = wv_size(number_data_) + 1
                 /\ number_data_'.data[wv_size(number_data_')]
                      = Encode(number_data_'.idx, last_call'.val)
                 /\ cat_data_' = cat_data_
                 /\ cat_ids_' = cat_ids_
                 /\ cat_keys_' = cat_keys_]_vars

(***************************************************************************)
(* C15  Text on an empty or categorical column.  process_categorical on a  *)
(* chunk whose numeric store is empty interns the text and appends its     *)
(* code to the categorical store, for every text, the empty one included:  *)
(* the numeric store stays empty and the chunk is categorical afterwards.  *)
(***************************************************************************)
TextOnEmptyOrCategorical ==
    [][(Calls("process_categorical") /\ wv_size(number_data_) = 0)
         => LET key  == last_call'.key
                code == IF key \in DOMAIN cat_ids_ THEN cat_ids_[key]
                        ELSE Len(cat_keys_)
            IN  /\ cat_data_' = Append(cat_data_, code)
                /\ key \in DOMAIN cat_ids_'
                /\ cat_ids_'[key] = code
                /\ cat_keys_'[code + 1] = key
                /\ IsPrefix(cat_keys_, cat_keys_')
                /\ wv_size(number_data_') = 0
                /\ get_semantics(This') = STRINGISH]_vars

\* An empty field first, "x" next, an empty field again.
TextOnEmptyWitness ==
    /\ last_call.op = "process_categorical"
    /\ last_call.key = ""
    /\ cat_keys_ = <<"", "x">>
    /\ cat_data_ = <<0, 1, 0>>
    /\ wv_size(number_data_) = 0

(***************************************************************************)
(* C16  Type identifier follows the mode.  In every state get_type_index() *)
(* is the string type exactly when the categorical store is non-empty,     *)
(* which is exactly when get_semantics() is STRINGISH; otherwise it is the *)
(* numeric store's active type.  get_common_type_index(other) is the       *)
(* string type whenever the chunk is categorical or other is the string    *)
(* type, and otherwise what the numeric store answers for other.           *)
(***************************************************************************)
\* The type identifiers a chunk can be asked about.
TypeIds == Range(Candidates) \cup {StringType}

TypeFollowsMode ==
    /\ get_type_index(This) = StringType <=> Len(cat_data_) > 0
    /\ Len(cat_data_) > 0 <=> get_semantics(This) = STRINGISH
    /\ get_semantics(This) \in {NUMERIC, STRINGISH}
    /\ Len(cat_data_) = 0 => get_type_index(This) = Candidates[number_data_.idx]
    /\ \A t \in TypeIds :
          get_common_type_index(This, t) =
              IF Len(cat_data_) > 0 \/ t = StringType THEN StringType
              ELSE wv_get_common_type_index(number_data_, t)

\* A categorical chunk that was numeric, asked for the type it has in common
\* with an int8_t chunk.
TypeFollowsModeWitness ==
    /\ conversion = "done"
    /\ Len(cat_data_) = 3
    /\ wv_size(number_data_) = 0
    /\ get_type_index(This) = StringType
    /\ get_common_type_index(This, "int8_t") = StringType

(***************************************************************************)
(* C17  Row count preserved.  Every call of process_float, process_integer *)
(* or process_categorical, one that converts the column included, makes    *)
(* size() one larger, and clear() makes it 0: after k such calls since     *)
(* construction or the last clear(), size() is k.                          *)
(***************************************************************************)
RowCountPreserved ==
    [][/\ (Calls("process_float") \/ Calls("process_integer")
              \/ Calls("process_categorical"))
            => size(This') = size(This) + 1
       /\ Calls("clear") => size(This') = 0]_vars

\* Two numbers and then the text that converts the column: three rows.
RowCountWitness ==
    /\ last_call.op = "process_categorical"
    /\ conversion = "done"
    /\ wv_size(number_data_) = 0
    /\ Len(cat_keys_) = 3
    /\ size(This) = 3

(***************************************************************************)
(* C18  Decodability.  In every state cat_ids_ and cat_keys_ are inverse   *)
(* to each other (no text is twice in cat_keys_, cat_ids_ has one entry    *)
(* for each element of cat_keys_, and cat_ids_ maps the text of code c to  *)
(* c), and every code in cat_data_ is below the length of cat_keys_: each  *)
(* stored code decodes.                                                    *)
(***************************************************************************)
Decodable ==
    /\ \A i, j \in 1 .. Len(cat_keys_) : cat_keys_[i] = cat_keys_[j] => i = j
    /\ Cardinality(DOMAIN cat_ids_) = Len(cat_keys_)
    /\ \A code \in 0 .. Len(cat_keys_) - 1 :
          /\ cat_keys_[code + 1] \in DOMAIN cat_ids_
          /\ cat_ids_[cat_keys_[code + 1]] = code
    /\ \A i \in 1 .. Len(cat_data_) :
          /\ cat_data_[i] >= 0
          /\ cat_data_[i] < Len(cat_keys_)

\* Three categories, the first of them stored twice.
DecodableWitness ==
    /\ cat_keys_ = <<"a", "b", "c">>
    /\ cat_data_ = <<0, 1, 0, 2>>
    /\ cat_ids_["c"] = 2

(***************************************************************************)
(* C19  Same value, same category.  An integer v passed to process_integer *)
(* before the column converts and again after it gets the same code both   *)
(* times: the code the conversion gives to v in the numeric store is the   *)
(* code process_integer(v) appends to the chunk the conversion leaves.     *)
(***************************************************************************)
\* The last code of the chunk's categorical store.
LastCode(c) == c.cat_data_[Len(c.cat_data_)]

SameValueSameCategory ==
    [][(/\ Converting
        /\ Len(cat_data_) = 0
        /\ number_data_.idx # FloatIdx)
         => \A i \in 1 .. wv_size(number_data_) :
               LET v == number_data_.data[i]
               IN  v \in column.longs
                     => LastCode(process_integer(This', v)) = cat_data_'[i]]_vars

====
